---- MODULE Spec2Model ----
(***************************************************************************)
(* redis-stats: periodic sampling of the Redis INFO command into raw,      *)
(* hourly and daily sorted sets, and the retention pass that trims them.   *)
(*                                                                         *)
(* The model follows the latest revision of lib/index.js (the one with     *)
(* hourly and daily averages, src/unnamed/part_000 lines 154-361).         *)
(*                                                                         *)
(* Text is modelled as a sequence of one-character strings, so that        *)
(* split, replace, parseFloat and key concatenation are computed as the    *)
(* code computes them.  A number is an exact rational [num, den]; the      *)
(* rounding of IEEE doubles is not represented.                            *)
(***************************************************************************)
EXTENDS Integers, Sequences, FiniteSets, TLC

(***************************************************************************)
(* Bounds of the model.                                                    *)
(***************************************************************************)
MaxTicks == 3        \* sampling ticks (_updateStatus) per behaviour
MaxPasses == 2       \* retention passes (_cleanupStatus) per behaviour
MaxClock == 3        \* the clock takes the instants Instant(0) .. Instant(MaxClock)
MaxRestarts == 2     \* the process is started again at most twice

(***************************************************************************)
(* Program constants.                                                      *)
(***************************************************************************)
HourMs == 3600000            \* toISOString().slice(0,13) + ':00:00.000Z'
DayMs == 86400000            \* toISOString().slice(0,10) + 'T00:00:00.000Z'
DefaultMaxItems == 1440
DefaultMaxItemsHourly == 48
DefaultMaxItemsDaily == 30

prefix == <<"status", ":">>  \* const prefix = 'status:'

(***************************************************************************)
(* Numbers.  A JavaScript number is [kind |-> "num", num, den] (a reduced  *)
(* fraction) or NaN; a JSON value read back from the store may also be     *)
(* null (JSON.stringify turns NaN into null) or a string.                  *)
(***************************************************************************)
RECURSIVE GCD(_, _)
GCD(a, b) == IF b = 0 THEN a ELSE GCD(b, a % b)

Abs(x) == IF x < 0 THEN -x ELSE x

Min(a, b) == IF a < b THEN a ELSE b

Rat(p, q) ==
    LET g == GCD(Abs(p), Abs(q))
    IN  [kind |-> "num", num |-> p \div g, den |-> q \div g, str |-> <<>>]

Int2Num(i) == Rat(i, 1)
NaN == [kind |-> "NaN", num |-> 0, den |-> 1, str |-> <<>>]
null == [kind |-> "null", num |-> 0, den |-> 1, str |-> <<>>]
Str(s) == [kind |-> "str", num |-> 0, den |-> 1, str |-> s]

IsNum(v) == v.kind = "num"

\* JavaScript's ToNumber on a value parsed from JSON: null becomes 0.
ToNumber(v) == IF v.kind = "null" THEN Int2Num(0) ELSE v

NumAdd(a, b) ==
    IF ~IsNum(a) \/ ~IsNum(b) THEN NaN
    ELSE Rat(a.num * b.den + b.num * a.den, a.den * b.den)

NumMul(a, b) ==
    IF ~IsNum(a) \/ ~IsNum(b) THEN NaN ELSE Rat(a.num * b.num, a.den * b.den)

\* a / k for an integer k > 0
NumDivInt(a, k) == IF ~IsNum(a) THEN NaN ELSE Rat(a.num, a.den * k)

\* JSON.stringify followed by JSON.parse of a number: NaN is written as null.
JSONNumber(v) == IF v.kind = "NaN" THEN null ELSE v

(***************************************************************************)
(* Text.                                                                   *)
(***************************************************************************)
Digits == {"0", "1", "2", "3", "4", "5", "6", "7", "8", "9"}

DigitVal(c) ==
    CASE c = "0" -> 0 [] c = "1" -> 1 [] c = "2" -> 2 [] c = "3" -> 3
      [] c = "4" -> 4 [] c = "5" -> 5 [] c = "6" -> 6 [] c = "7" -> 7
      [] c = "8" -> 8 [] c = "9" -> 9

\* The longest prefix of s made of digits.
RECURSIVE DigitPrefix(_)
DigitPrefix(s) ==
    IF s = <<>> \/ Head(s) \notin Digits THEN <<>>
    ELSE <<Head(s)>> \o DigitPrefix(Tail(s))

RECURSIVE DigitsValue(_, _)
DigitsValue(s, acc) ==
    IF s = <<>> THEN acc ELSE DigitsValue(Tail(s), 10 * acc + DigitVal(Head(s)))

\* Number.parseFloat on texts made of an optional '-', digits and other
\* characters: the leading decimal integer, NaN when there is none.
parseFloat(s) ==
    LET neg == s # <<>> /\ Head(s) = "-"
        body == IF neg THEN Tail(s) ELSE s
        d == DigitPrefix(body)
    IN  IF d = <<>> THEN NaN
        ELSE Int2Num(IF neg THEN -DigitsValue(d, 0) ELSE DigitsValue(d, 0))

\* String.prototype.split(sep) for a one-character separator.
RECURSIVE SplitFrom(_, _, _)
SplitFrom(s, sep, cur) ==
    IF s = <<>> THEN <<cur>>
    ELSE IF Head(s) = sep THEN <<cur>> \o SplitFrom(Tail(s), sep, <<>>)
    ELSE SplitFrom(Tail(s), sep, Append(cur, Head(s)))

split(s, sep) == SplitFrom(s, sep, <<>>)

\* String.prototype.replace(c, ''): the first occurrence only.
RECURSIVE replaceFirst(_, _)
replaceFirst(s, c) ==
    IF s = <<>> THEN <<>>
    ELSE IF Head(s) = c THEN Tail(s)
    ELSE <<Head(s)>> \o replaceFirst(Tail(s), c)

(***************************************************************************)
(* internals.renderStatus: one [name, value] pair per non-empty line; the  *)
(* value is null (has = FALSE) when the line has no colon or nothing       *)
(* after it.                                                               *)
(***************************************************************************)
renderLine(line) ==
    LET pair == split(line, ":")
    IN  [name |-> pair[1],
         has |-> Len(pair) >= 2 /\ pair[2] # <<>>,
         value |-> IF Len(pair) >= 2 /\ pair[2] # <<>>
                   THEN replaceFirst(pair[2], "\r") ELSE <<>>]

RECURSIVE renderLines(_)
renderLines(lines) ==
    IF lines = <<>> THEN <<>>
    ELSE IF Head(lines) # <<>>
         THEN <<renderLine(Head(lines))>> \o renderLines(Tail(lines))
         ELSE renderLines(Tail(lines))

renderStatus(status) == renderLines(split(status, "\n"))

(***************************************************************************)
(* Time.  An ISO-8601 text is the record of its date (days since the       *)
(* epoch), its hour and the rest of the hour in milliseconds; slice(0,13)  *)
(* keeps the date and the hour, slice(0,10) the date.                      *)
(***************************************************************************)
toISOString(t) ==
    [day |-> t \div DayMs, hour |-> (t % DayMs) \div HourMs, rest |-> t % HourMs]

getTime(iso) == iso.day * DayMs + iso.hour * HourMs + iso.rest

\* a slip: the hour is cut off with the minutes
hourTimeOfDay(t) == [toISOString(t) EXCEPT !.rest = 0, !.hour = 0]

\* time.toISOString().slice(0,13) + ':00:00.000Z'
hourTime(t) == [toISOString(t) EXCEPT !.rest = 0]

\* time.toISOString().slice(0,10) + 'T00:00:00.000Z'
dayTime(t) == [toISOString(t) EXCEPT !.rest = 0, !.hour = 0]

\* The instants the clock of the model takes, in increasing order: two in
\* one hour, one in the next hour, then one in each following day.
Instant(i) ==
    IF i = 0 THEN 0
    ELSE IF i = 1 THEN 1000
    ELSE IF i = 2 THEN HourMs
    ELSE (i - 2) * DayMs + i * 1000

(***************************************************************************)
(* Sorted sets.  A sorted set is a set of entries [score, member]; members *)
(* are unique, ZADD of a member already present moves it to the new score. *)
(* A member is the parsed JSON payload: {iso: "value"} for a raw sample    *)
(* (n = 0 stands for no n field), {n: 1, iso: mean} or {iso: mean, n: k}   *)
(* for a bucket.  Entries of equal score are ranked by the bytes of their  *)
(* member; the model leaves the order among equal scores open.             *)
(***************************************************************************)
Member(iso, n, val) == [iso |-> iso, n |-> n, val |-> val]

Entry(score, member) == [score |-> score, member |-> member]

ZADD(zset, score, member) ==
    {e \in zset : e.member # member} \cup {Entry(score, member)}

ZRANGEBYSCORE(zset, lo, hi) == {e \in zset : lo <= e.score /\ e.score <= hi}

ZREMRANGEBYSCORE(zset, lo, hi) == zset \ ZRANGEBYSCORE(zset, lo, hi)

ZCARD(zset) == Cardinality(zset)

\* ZREMRANGEBYRANK key 0 stop: the sets the ranks 0..stop may denote.  A
\* negative stop counts from the highest rank (-1 is the last entry).  They
\* are stop+1 entries (all of them when there are fewer) none of which has a
\* higher score than an entry left out.
RankPrefixes(zset, stop) ==
    LET last == IF stop < 0 THEN Cardinality(zset) + stop ELSE stop
        size == IF last < 0 THEN 0 ELSE Min(last + 1, Cardinality(zset))
    IN  {R \in SUBSET zset :
            /\ Cardinality(R) = size
            /\ \A r \in R : \A e \in zset \ R : r.score <= e.score}

(***************************************************************************)
(* Storage keys, as the code concatenates them.                            *)
(***************************************************************************)
Resolutions == {"raw", "hourly", "daily"}

Colon == <<":">>

KeyOf(pfx, server, res, statusItem) ==
    pfx \o server.host \o Colon \o server.port \o
        (CASE res = "raw" -> Colon
           [] res = "hourly" -> <<":", "hourly", ":">>
           [] res = "daily" -> <<":", "daily", ":">>)
        \o statusItem

(***************************************************************************)
(* The state.                                                              *)
(***************************************************************************)
VARIABLES
    config,     \* the options the constructor was called with
    self,       \* the RedisStats object: the fields the constructor sets
    store,      \* the sorted set stored under each key
    queue,      \* per connection, the commands sent and not yet executed
    clock,      \* the last instant read by new Date() is Instant(clock)
    ticks,      \* sampling ticks so far
    passes,     \* retention passes so far
    running,    \* FALSE once the process has been stopped
    calls,      \* history: the addAvgToZsets calls made, in order
    snap,       \* history: the store when a tick or pass last started with
                \* no command in flight
    failed,     \* history: the commands that failed since snap was taken,
                \* and every redis.info that failed
    written,    \* history: per key, the entries ZADD has inserted
    cardSeen,   \* history: written[key] when pass p read the cardinality of key
    info,       \* history: the last reply of redis.info that was handled
    restarts    \* the times the process has been started again

vars == <<config, self, store, queue, clock, ticks, passes, running,
          calls, snap, failed, written, cardSeen, info, restarts>>

Range(f) == {f[i] : i \in DOMAIN f}

(***************************************************************************)
(* constructor(options).  A numeric option that is absent is 0, an absent  *)
(* prefix is the empty text: `options.x || default`.                       *)
(***************************************************************************)
RedisStats(options) ==
    [servers |-> options.servers,
     stats |-> options.stats,
     prefix |-> IF options.prefix # <<>> THEN options.prefix ELSE prefix,
     cluster |-> options.cluster,
     maxItems |-> IF options.maxItems # 0 THEN options.maxItems
                  ELSE DefaultMaxItems,
     maxItemsHourly |-> IF options.maxItemsHourly # 0 THEN options.maxItemsHourly
                        ELSE DefaultMaxItemsHourly,
     maxItemsDaily |-> IF options.maxItemsDaily # 0 THEN options.maxItemsDaily
                       ELSE DefaultMaxItemsDaily]

\* No object: the constructor has thrown.  (No connection, no series.)
NoObject == [thrown |-> TRUE, servers |-> <<>>, stats |-> <<>>]

\* a slip: a list that is missing is replaced by a default, as the other
\* options are
constructorWithDefaults(options) ==
    RedisStats(options @@ [servers |-> <<[host |-> <<"h">>, port |-> <<"1">>]>>,
                        stats |-> <<<<"u">>>>])

\* new RedisStats(options): `if (!options.servers) throw`, `if
\* (!options.stats) throw`, then the assignments.  An option that is not
\* given is a field the record does not have.
constructor(options) ==
    IF "servers" \notin DOMAIN options THEN NoObject
    ELSE IF "stats" \notin DOMAIN options THEN NoObject
    ELSE RedisStats(options)

\* this.redises: one connection per monitored server, numbered as the servers
\* are; connection 0 is this.cluster (used only with the cluster option).
Redises == 1..Len(self.servers)
Connections == 0..Len(self.servers)

\* a slip: without the cluster option everything is written through the
\* connection of the first server
WriterFirst(redis) == IF self.cluster THEN 0 ELSE 1

\* this.cluster || redis
Writer(redis) == IF self.cluster THEN 0 ELSE redis

AllKeys(me) ==
    {KeyOf(me.prefix, me.servers[i], r, me.stats[j]) :
        i \in DOMAIN me.servers, r \in Resolutions, j \in DOMAIN me.stats}

(***************************************************************************)
(* Commands.  One record shape for all of them; a callback's closure is    *)
(* kept in the command (objKey, objVal, maxItems; pass is history).        *)
(***************************************************************************)
NoMember == Member(toISOString(0), 0, NaN)

BaseCmd ==
    [op |-> "none", key |-> <<>>, score |-> 0, stop |-> 0, member |-> NoMember,
     objKey |-> toISOString(0), objVal |-> NaN, maxItems |-> 0, pass |-> 0]

InfoCmd == [BaseCmd EXCEPT !.op = "info"]

ZaddCmd(key, score, member) ==
    [BaseCmd EXCEPT !.op = "zadd", !.key = key, !.score = score, !.member = member]

ZrangebyscoreCmd(key, score, objKey, objVal) ==
    [BaseCmd EXCEPT !.op = "zrangebyscore", !.key = key, !.score = score,
                    !.objKey = objKey, !.objVal = objVal]

ZremrangebyscoreCmd(key, score) ==
    [BaseCmd EXCEPT !.op = "zremrangebyscore", !.key = key, !.score = score]

ZcardCmd(key, maxItems, pass) ==
    [BaseCmd EXCEPT !.op = "zcard", !.key = key, !.maxItems = maxItems,
                    !.pass = pass]

ZremrangebyrankCmd(key, stop, maxItems, pass) ==
    [BaseCmd EXCEPT !.op = "zremrangebyrank", !.key = key, !.stop = stop,
                    !.maxItems = maxItems, !.pass = pass]

HeadIs(c, op) == queue[c] # <<>> /\ Head(queue[c]).op = op

\* The queues after connection c's first command has completed and its
\* callback has sent cmds on connection w.
Reply(c, w, cmds) ==
    IF w = c THEN [queue EXCEPT ![c] = Tail(@) \o cmds]
    ELSE [queue EXCEPT ![c] = Tail(@), ![w] = @ \o cmds]

(***************************************************************************)
(* internals.addToZsets and internals.addAvgToZsets: the commands a call   *)
(* sends at once.                                                          *)
(***************************************************************************)
addToZsets(key, score, obj) == <<ZaddCmd(key, score, obj)>>

addAvgToZsets(key, score, objKey, objVal) ==
    <<ZrangebyscoreCmd(key, score, objKey, objVal)>>

\* a slip: the new sample is averaged in without the weight of the old ones
newValUnweighted(n, old, objVal) ==
    NumDivInt(NumAdd(ToNumber(old), objVal), 2)

\* let newVal = (n * result[objKey] + objVal) / (n+1)
newValOf(n, old, objVal) ==
    NumDivInt(NumAdd(NumMul(Int2Num(n), ToNumber(old)), objVal), n + 1)

\* result[objKey] of a parsed bucket: undefined (NaN in arithmetic) when the
\* payload has no such field.
FieldOf(member, objKey) == IF member.iso = objKey THEN member.val ELSE NaN

\* a slip: the count of a bucket is kept in the process, which starts from
\* no bucket after it has been started again
addAvgCallbackCached(cmd, result, first) ==
    IF result = {} \/ restarts > 0
    THEN <<ZaddCmd(cmd.key, cmd.score,
                   Member(cmd.objKey, 1, JSONNumber(cmd.objVal)))>>
    ELSE LET n == first.member.n
             newVal == newValOf(n, FieldOf(first.member, cmd.objKey), cmd.objVal)
         IN  <<ZremrangebyscoreCmd(cmd.key, cmd.score),
               ZaddCmd(cmd.key, cmd.score,
                       Member(cmd.objKey, n + 1, JSONNumber(newVal)))>>

\* The callback of addAvgToZsets' zrangebyscore, given result[0] (first) or
\* an empty result: the commands it sends.
addAvgCallback(cmd, result, first) ==
    IF result = {}
    THEN <<ZaddCmd(cmd.key, cmd.score,
                   Member(cmd.objKey, 1, JSONNumber(cmd.objVal)))>>
    ELSE LET n == first.member.n
             newVal == newValOf(n, FieldOf(first.member, cmd.objKey), cmd.objVal)
         IN  <<ZremrangebyscoreCmd(cmd.key, cmd.score),
               ZaddCmd(cmd.key, cmd.score,
                       Member(cmd.objKey, n + 1, JSONNumber(newVal)))>>

(***************************************************************************)
(* _updateStatus: the callback of redis.info for one server.               *)
(***************************************************************************)
\* One item of a value split at ',': its key and its value.
statusKeyOf(name, statusItem) ==
    LET parts == split(statusItem, "=")
    IN  IF Len(parts) > 1 THEN name \o Colon \o parts[1] ELSE name

\* a slip: the whole item `field=value` is taken as the value
statusValOfWhole(statusItem) == statusItem

statusValOf(statusItem) ==
    LET parts == split(statusItem, "=")
    IN  IF Len(parts) > 1 THEN parts[2] ELSE statusItem

\* a slip: the bucket updates are started before the raw sample is sent
RecordItemBucketsFirst(me, server, statusKey, statusVal, t) ==
    addAvgToZsets(KeyOf(me.prefix, server, "hourly", statusKey),
                  getTime(hourTime(t)), hourTime(t), parseFloat(statusVal))
    \o addAvgToZsets(KeyOf(me.prefix, server, "daily", statusKey),
                     getTime(dayTime(t)), dayTime(t), parseFloat(statusVal))
    \o addToZsets(KeyOf(me.prefix, server, "raw", statusKey), t,
                  Member(toISOString(t), 0, Str(statusVal)))

\* What the callback does for one tracked item at time t.
RecordItem(me, server, statusKey, statusVal, t) ==
    addToZsets(KeyOf(me.prefix, server, "raw", statusKey), t,
               Member(toISOString(t), 0, Str(statusVal)))
    \o addAvgToZsets(KeyOf(me.prefix, server, "hourly", statusKey),
                     getTime(hourTime(t)), hourTime(t), parseFloat(statusVal))
    \o addAvgToZsets(KeyOf(me.prefix, server, "daily", statusKey),
                     getTime(dayTime(t)), dayTime(t), parseFloat(statusVal))

RECURSIVE ItemsCmds(_, _, _, _, _)
ItemsCmds(me, server, name, items, t) ==
    IF items = <<>> THEN <<>>
    ELSE LET statusKey == statusKeyOf(name, Head(items))
             statusVal == statusValOf(Head(items))
         IN  (IF statusKey \in Range(me.stats)
              THEN RecordItem(me, server, statusKey, statusVal, t)
              ELSE <<>>)
             \o ItemsCmds(me, server, name, Tail(items), t)

\* a slip: only a null value is skipped, an empty one is recorded
RECURSIVE StatusesCmdsNullOnly(_, _, _, _)
StatusesCmdsNullOnly(me, server, statuses, t) ==
    IF statuses = <<>> THEN <<>>
    ELSE (IF ~Head(statuses).has THEN <<>>
          ELSE ItemsCmds(me, server, Head(statuses).name,
                         split(Head(statuses).value, ","), t))
         \o StatusesCmdsNullOnly(me, server, Tail(statuses), t)

RECURSIVE StatusesCmds(_, _, _, _)
StatusesCmds(me, server, statuses, t) ==
    IF statuses = <<>> THEN <<>>
    ELSE (IF ~Head(statuses).has \/ Head(statuses).value = <<>> THEN <<>>
          ELSE ItemsCmds(me, server, Head(statuses).name,
                         split(Head(statuses).value, ","), t))
         \o StatusesCmds(me, server, Tail(statuses), t)

infoCallback(me, server, result, t) ==
    StatusesCmds(me, server, renderStatus(result), t)

IsAvgCall(cmd) == cmd.op = "zrangebyscore"

(***************************************************************************)
(* _cleanupStatus: the commands one pass sends on connection w.            *)
(***************************************************************************)
removeFromZsets(key, maxItems, pass) == <<ZcardCmd(key, maxItems, pass)>>

\* a slip: every series is trimmed against maxItems
cleanupItemOneMax(me, server, statusItem, pass) ==
    removeFromZsets(KeyOf(me.prefix, server, "raw", statusItem),
                    me.maxItems, pass)
    \o removeFromZsets(KeyOf(me.prefix, server, "daily", statusItem),
                       me.maxItems, pass)
    \o removeFromZsets(KeyOf(me.prefix, server, "hourly", statusItem),
                       me.maxItems, pass)

cleanupItem(me, server, statusItem, pass) ==
    removeFromZsets(KeyOf(me.prefix, server, "raw", statusItem),
                    me.maxItems, pass)
    \o removeFromZsets(KeyOf(me.prefix, server, "daily", statusItem),
                       me.maxItemsDaily, pass)
    \o removeFromZsets(KeyOf(me.prefix, server, "hourly", statusItem),
                       me.maxItemsHourly, pass)

RECURSIVE cleanupStats(_, _, _, _)
cleanupStats(me, server, stats, pass) ==
    IF stats = <<>> THEN <<>>
    ELSE cleanupItem(me, server, Head(stats), pass)
         \o cleanupStats(me, server, Tail(stats), pass)

\* The commands of the pass for the servers from i on that go to connection w.
RECURSIVE cleanupFor(_, _, _, _)
cleanupFor(me, w, i, pass) ==
    IF i > Len(me.servers) THEN <<>>
    ELSE (IF (IF me.cluster THEN 0 ELSE i) = w
          THEN cleanupStats(me, me.servers[i], me.stats, pass)
          ELSE <<>>)
         \o cleanupFor(me, w, i + 1, pass)

\* a slip: the last rank to remove is one too high
zcardCallbackOneMore(cmd, count) ==
    IF count > cmd.maxItems
    THEN <<ZremrangebyrankCmd(cmd.key, count - cmd.maxItems,
                              cmd.maxItems, cmd.pass)>>
    ELSE <<>>

\* a slip: >= for >, so that a full series gives the last rank -1
zcardCallbackAtLeast(cmd, count) ==
    IF count >= cmd.maxItems
    THEN <<ZremrangebyrankCmd(cmd.key, count - cmd.maxItems - 1,
                              cmd.maxItems, cmd.pass)>>
    ELSE <<>>

\* a slip: the series is trimmed to one entry more than maxItems
zcardCallbackOneLess(cmd, count) ==
    IF count > cmd.maxItems + 1
    THEN <<ZremrangebyrankCmd(cmd.key, count - cmd.maxItems - 2,
                              cmd.maxItems, cmd.pass)>>
    ELSE <<>>

\* count > maxItems: zremrangebyrank(key, 0, count - maxItems - 1)
zcardCallback(cmd, count) ==
    IF count > cmd.maxItems
    THEN <<ZremrangebyrankCmd(cmd.key, count - cmd.maxItems - 1,
                              cmd.maxItems, cmd.pass)>>
    ELSE <<>>

(***************************************************************************)
(* Configurations and inputs of the model.                                 *)
(***************************************************************************)
Server1 == [host |-> <<"h">>, port |-> <<"1">>]

\* the stat "u", e.g. used_memory
StatU == <<"u">>

BaseOptions ==
    [servers |-> <<Server1>>, stats |-> <<StatU>>, prefix |-> <<>>,
     cluster |-> FALSE, maxItems |-> 1, maxItemsHourly |-> 1, maxItemsDaily |-> 1]

\* The INFO reply "name:value\r\n".
InfoLine(name, value) == name \o Colon \o value \o <<"\r", "\n">>

NumericBlobs == {InfoLine(StatU, <<"2">>), InfoLine(StatU, <<"5">>)}

EmptyStore(me) == [k \in AllKeys(me) |-> {}]

Instances(optionSet) == {constructor(o) : o \in optionSet}

\* The program constructs the object and calls initialize() on it; when the
\* constructor throws there is no object and no timer is started.
InitWith(optionSet, stores) ==
    /\ config \in optionSet
    /\ self = constructor(config)
    /\ store \in stores[self]
    /\ queue = [c \in 0..Len(self.servers) |-> <<>>]
    /\ clock = 0
    /\ ticks = 0
    /\ passes = 0
    /\ running = ("thrown" \notin DOMAIN self)
    /\ calls = <<>>
    /\ snap = store
    /\ failed = {}
    /\ written = [k \in AllKeys(self) |-> 0]
    /\ cardSeen = [pk \in (1..MaxPasses) \X AllKeys(self) |-> -1]
    /\ info = [redis |-> 0, result |-> <<>>, time |-> 0]
    /\ restarts = 0

Quiet == \A c \in Connections : queue[c] = <<>>

(***************************************************************************)
(* The timers.                                                             *)
(***************************************************************************)
\* setInterval(() => this._updateStatus()): redis.info on every connection
Tick ==
    /\ running
    /\ ticks < MaxTicks
    /\ ticks' = ticks + 1
    /\ queue' = [c \in Connections |->
                    IF c \in Redises THEN Append(queue[c], InfoCmd) ELSE queue[c]]
    /\ snap' = IF Quiet THEN store ELSE snap
    /\ failed' = IF Quiet THEN {f \in failed : f.op = "info"} ELSE failed
    /\ UNCHANGED <<restarts, config, self, info, store, clock, passes, running, calls, written, cardSeen>>

\* setInterval(() => this._cleanupStatus())
Cleanup ==
    /\ running
    /\ passes < MaxPasses
    /\ passes' = passes + 1
    /\ queue' = [c \in Connections |->
                    queue[c] \o cleanupFor(self, c, 1, passes + 1)]
    /\ snap' = IF Quiet THEN store ELSE snap
    /\ failed' = IF Quiet THEN {f \in failed : f.op = "info"} ELSE failed
    /\ UNCHANGED <<restarts, config, self, info, store, clock, ticks, running, calls, written, cardSeen>>

(***************************************************************************)
(* A connection's first command is executed by the server and its callback *)
(* runs.  A stopped process runs no callback.  The clock is read by the    *)
(* callback of redis.info only (new Date()), so time passes there: the     *)
(* callback runs at an instant not before the last one read.               *)
(***************************************************************************)
\* The callback of redis.info on connection c, reading the time t from
\* new Date(), the i-th instant of the clock.
ExecInfoAt(c, result, i, t) ==
    /\ HeadIs(c, "info")
    /\ clock' = i
    /\ info' = [redis |-> c, result |-> result, time |-> t]
    /\ LET cmds == IF running
                   THEN infoCallback(self, self.servers[c], result, t)
                   ELSE <<>>
       IN  /\ queue' = Reply(c, Writer(c), cmds)
           /\ calls' = calls \o SelectSeq(cmds, IsAvgCall)
    /\ UNCHANGED <<restarts, config, self, store, ticks, passes, running,
                   snap, failed, written, cardSeen>>

ExecInfo(c, result, i) == ExecInfoAt(c, result, i, Instant(i))

ExecZadd(c) ==
    /\ HeadIs(c, "zadd")
    /\ LET cmd == Head(queue[c])
           isNew == \A e \in store[cmd.key] : e.member # cmd.member
       IN  /\ store' = [store EXCEPT
                          ![cmd.key] = ZADD(@, cmd.score, cmd.member)]
           /\ written' = [written EXCEPT
                            ![cmd.key] = IF isNew THEN @ + 1 ELSE @]
    /\ queue' = Reply(c, c, <<>>)
    /\ UNCHANGED <<restarts, config, self, info, clock, ticks, passes, running,
                   calls, snap, failed, cardSeen>>

ExecZrangebyscore(c) ==
    /\ HeadIs(c, "zrangebyscore")
    /\ LET cmd == Head(queue[c])
           result == ZRANGEBYSCORE(store[cmd.key], cmd.score, cmd.score)
       IN  IF ~running THEN queue' = Reply(c, c, <<>>)
           ELSE IF result = {}
           THEN queue' = Reply(c, c, addAvgCallback(cmd, result, Entry(0, NoMember)))
           ELSE \E first \in result :
                    queue' = Reply(c, c, addAvgCallback(cmd, result, first))
    /\ UNCHANGED <<restarts, config, self, info, store, clock, ticks, passes, running,
                   calls, snap, failed, written, cardSeen>>

ExecZremrangebyscore(c) ==
    /\ HeadIs(c, "zremrangebyscore")
    /\ LET cmd == Head(queue[c])
       IN  store' = [store EXCEPT
                       ![cmd.key] = ZREMRANGEBYSCORE(@, cmd.score, cmd.score)]
    /\ queue' = Reply(c, c, <<>>)
    /\ UNCHANGED <<restarts, config, self, info, clock, ticks, passes, running,
                   calls, snap, failed, written, cardSeen>>

ExecZcard(c) ==
    /\ HeadIs(c, "zcard")
    /\ LET cmd == Head(queue[c])
           count == ZCARD(store[cmd.key])
       IN  /\ queue' = Reply(c, c, IF running THEN zcardCallback(cmd, count)
                                   ELSE <<>>)
           /\ cardSeen' = [cardSeen EXCEPT
                             ![<<cmd.pass, cmd.key>>] = written[cmd.key]]
    /\ UNCHANGED <<restarts, config, self, info, store, clock, ticks, passes, running,
                   calls, snap, failed, written>>

ExecZremrangebyrank(c) ==
    /\ HeadIs(c, "zremrangebyrank")
    /\ LET cmd == Head(queue[c])
       IN  \E R \in RankPrefixes(store[cmd.key], cmd.stop) :
               store' = [store EXCEPT ![cmd.key] = @ \ R]
    /\ queue' = Reply(c, c, <<>>)
    /\ UNCHANGED <<restarts, config, self, info, clock, ticks, passes, running,
                   calls, snap, failed, written, cardSeen>>

(***************************************************************************)
(* Faults.                                                                 *)
(***************************************************************************)
\* The first command of connection c fails: the store is not changed, the
\* callback, if the command has one, gets err and returns.  (A failing
\* redis.info is not part of this action.)
Fail(c) ==
    /\ queue[c] # <<>>
    /\ Head(queue[c]).op # "info"
    /\ queue' = Reply(c, c, <<>>)
    /\ failed' = failed \cup {Head(queue[c])}
    /\ UNCHANGED <<restarts, config, self, info, store, clock, ticks, passes, running,
                   calls, snap, written, cardSeen>>

\* redis.info of connection c fails at tick number `ticks`: the key of the
\* record names the server.
InfoFailure(c) ==
    [InfoCmd EXCEPT !.key = self.servers[c].host \o Colon \o self.servers[c].port,
                    !.score = ticks]

LongestQueue ==
    CHOOSE n \in {Len(queue[c]) : c \in Connections} :
        \A c \in Connections : Len(queue[c]) <= n

\* The process is stopped.  Of the commands sent on a connection, the server
\* still gets those that had left the process, a prefix of the queue; no
\* callback runs any more.
Stop ==
    /\ running
    /\ running' = FALSE
    /\ \E keep \in [Connections -> 0..LongestQueue] :
           /\ \A c \in Connections : keep[c] <= Len(queue[c])
           /\ queue' = [c \in Connections |-> SubSeq(queue[c], 1, keep[c])]
    /\ UNCHANGED <<restarts, config, self, info, store, clock, ticks, passes,
                   calls, snap, failed, written, cardSeen>>

\* redis.info fails for connection c: the callback gets err and no result,
\* reports err and goes on to renderStatus(undefined), where status.split
\* throws.  The callback sends nothing.  The exception leaves the callback:
\* either the embedding program handles it, or it ends the process as Stop
\* does.
InfoFail(c) ==
    /\ running
    /\ HeadIs(c, "info")
    /\ failed' = failed \cup {InfoFailure(c)}
    /\ \E fatal \in BOOLEAN :
           /\ running' = ~fatal
           /\ IF fatal
              THEN \E keep \in [Connections -> 0..LongestQueue] :
                       /\ \A d \in Connections : keep[d] <= Len(Reply(c, c, <<>>)[d])
                       /\ queue' = [d \in Connections |->
                                       SubSeq(Reply(c, c, <<>>)[d], 1, keep[d])]
              ELSE queue' = Reply(c, c, <<>>)
    /\ UNCHANGED <<restarts, config, self, info, store, clock, ticks, passes,
                   calls, snap, written, cardSeen>>

(***************************************************************************)
(* The program with its two timers and a store that never fails, with and  *)
(* without the cluster option.                                             *)
(***************************************************************************)
OneBlob == {InfoLine(StatU, <<"2">>)}

Init ==
    LET optionSet == {BaseOptions, [BaseOptions EXCEPT !.cluster = TRUE]}
    IN  InitWith(optionSet, [me \in Instances(optionSet) |-> {EmptyStore(me)}])

Next ==
    \/ Tick
    \/ Cleanup
    \/ \E c \in Connections, result \in OneBlob, i \in clock..MaxClock :
           ExecInfo(c, result, i)
    \/ \E c \in Connections : ExecZadd(c)
    \/ \E c \in Connections : ExecZrangebyscore(c)
    \/ \E c \in Connections : ExecZremrangebyscore(c)
    \/ \E c \in Connections : ExecZcard(c)
    \/ \E c \in Connections : ExecZremrangebyrank(c)

Spec == Init /\ [][Next]_vars

(***************************************************************************)
(* The sampling timer alone, with two values to sample: ticks overlap.     *)
(***************************************************************************)
SamplingNext ==
    \/ Tick
    \/ \E c \in Connections, result \in NumericBlobs, i \in clock..MaxClock :
           ExecInfo(c, result, i)
    \/ \E c \in Connections : ExecZadd(c)
    \/ \E c \in Connections : ExecZrangebyscore(c)
    \/ \E c \in Connections : ExecZremrangebyscore(c)

SpecSampling == Init /\ [][SamplingNext]_vars

(***************************************************************************)
(* Sampling alone, one tick at a time: a tick starts when every command of *)
(* the earlier ticks has completed.  Values that are no numbers are        *)
(* sampled too.                                                            *)
(***************************************************************************)
MixedBlobs == NumericBlobs \cup {InfoLine(StatU, <<"x">>)}

SeqTick == Quiet /\ Tick

SeqInit ==
    InitWith({BaseOptions},
             [me \in Instances({BaseOptions}) |-> {EmptyStore(me)}])

SeqNext ==
    \/ SeqTick
    \/ \E c \in Connections, result \in MixedBlobs, i \in clock..MaxClock :
           ExecInfo(c, result, i)
    \/ \E c \in Connections : ExecZadd(c)
    \/ \E c \in Connections : ExecZrangebyscore(c)
    \/ \E c \in Connections : ExecZremrangebyscore(c)

SpecSeq == SeqInit /\ [][SeqNext]_vars

(***************************************************************************)
(* Sampling one tick at a time, with a store whose commands may fail.      *)
(***************************************************************************)
FailNext ==
    \/ SeqTick
    \/ \E c \in Connections, result \in OneBlob, i \in clock..MaxClock :
           ExecInfo(c, result, i)
    \/ \E c \in Connections : ExecZadd(c)
    \/ \E c \in Connections : ExecZrangebyscore(c)
    \/ \E c \in Connections : ExecZremrangebyscore(c)
    \/ \E c \in Connections : Fail(c)

SpecFail == SeqInit /\ [][FailNext]_vars

(***************************************************************************)
(* Sampling one tick at a time, in a process that may be stopped.          *)
(***************************************************************************)
StopNext ==
    \/ SeqTick
    \/ Stop
    \/ \E c \in Connections, result \in OneBlob, i \in clock..MaxClock :
           ExecInfo(c, result, i)
    \/ \E c \in Connections : ExecZadd(c)
    \/ \E c \in Connections : ExecZrangebyscore(c)
    \/ \E c \in Connections : ExecZremrangebyscore(c)

SpecStop == SeqInit /\ [][StopNext]_vars

(***************************************************************************)
(* The retention timer alone, one pass at a time, over a store that holds  *)
(* the series of earlier runs: any raw samples taken at the instants of    *)
(* the model (two of them in the same millisecond), the buckets of the     *)
(* first hours and of the first days.                                      *)
(***************************************************************************)
RawSample(i, text) == Entry(Instant(i), Member(toISOString(Instant(i)), 0, Str(text)))

RawCandidates ==
    {RawSample(i, <<"2">>) : i \in 0..MaxClock} \cup {RawSample(0, <<"5">>)}

HourBucket(i) ==
    Entry(getTime(hourTime(Instant(i))),
          Member(hourTime(Instant(i)), 1, Int2Num(2)))

DayBucket(i) ==
    Entry(getTime(dayTime(Instant(i))),
          Member(dayTime(Instant(i)), 1, Int2Num(2)))

EarlierSeries(res) ==
    CASE res = "raw" -> SUBSET RawCandidates
      [] res = "hourly" -> {{}, {HourBucket(0)}, {HourBucket(0), HourBucket(2)}}
      [] res = "daily" -> {{}, {DayBucket(0)}, {DayBucket(0), DayBucket(3)}}

EarlierStores(me) ==
    {[k \in AllKeys(me) |->
         IF k = KeyOf(me.prefix, Server1, "raw", StatU) THEN raw
         ELSE IF k = KeyOf(me.prefix, Server1, "hourly", StatU) THEN hourly
         ELSE daily] :
     raw \in EarlierSeries("raw"), hourly \in EarlierSeries("hourly"),
     daily \in EarlierSeries("daily")}

SeqCleanup == Quiet /\ Cleanup

TrimInit ==
    LET optionSet == {BaseOptions, [BaseOptions EXCEPT !.maxItems = 3]}
    IN  InitWith(optionSet, [me \in Instances(optionSet) |-> EarlierStores(me)])

TrimNext ==
    \/ SeqCleanup
    \/ \E c \in Connections : ExecZcard(c)
    \/ \E c \in Connections : ExecZremrangebyrank(c)

SpecTrim == TrimInit /\ [][TrimNext]_vars

(***************************************************************************)
(* Two monitored servers, one tick at a time, with a status retrieval that *)
(* may fail.                                                               *)
(***************************************************************************)
Server2 == [host |-> <<"h">>, port |-> <<"2">>]

TwoServers == [BaseOptions EXCEPT !.servers = <<Server1, Server2>>]

RetrievalInit ==
    InitWith({TwoServers},
             [me \in Instances({TwoServers}) |-> {EmptyStore(me)}])

RetrievalNext ==
    \/ SeqTick
    \/ \E c \in Connections, result \in OneBlob, i \in clock..MaxClock :
           ExecInfo(c, result, i)
    \/ \E c \in Connections : InfoFail(c)
    \/ \E c \in Connections : ExecZadd(c)
    \/ \E c \in Connections : ExecZrangebyscore(c)
    \/ \E c \in Connections : ExecZremrangebyscore(c)

SpecRetrieval == RetrievalInit /\ [][RetrievalNext]_vars

(***************************************************************************)
(* One server with two tracked metrics: ticks, one at a time and each at   *)
(* the next instant of the model, then retention passes, one at a time.    *)
(* In each tick or pass one store command of the first metric may fail.    *)
(***************************************************************************)
StatV == <<"v">>

TwoStats == [BaseOptions EXCEPT !.stats = <<StatU, StatV>>]

TwoStatsBlob == InfoLine(StatU, <<"2">>) \o InfoLine(StatV, <<"2">>)

IsolationInit ==
    InitWith({TwoStats},
             [me \in Instances({TwoStats}) |-> {EmptyStore(me)}])

KeysOfStat(statusItem) ==
    {KeyOf(self.prefix, self.servers[i], r, statusItem) :
        i \in DOMAIN self.servers, r \in Resolutions}

\* A store command of the first metric fails, the first command to fail in
\* its tick or pass.
FirstFail(c) ==
    /\ failed = {}
    /\ queue[c] # <<>>
    /\ Head(queue[c]).key \in KeysOfStat(StatU)
    /\ Fail(c)

IsolationNext ==
    \/ passes = 0 /\ SeqTick
    \/ SeqCleanup
    \/ \E c \in Connections : ExecInfo(c, TwoStatsBlob, Min(clock + 1, MaxClock))
    \/ \E c \in Connections : ExecZadd(c)
    \/ \E c \in Connections : ExecZrangebyscore(c)
    \/ \E c \in Connections : ExecZremrangebyscore(c)
    \/ \E c \in Connections : ExecZcard(c)
    \/ \E c \in Connections : ExecZremrangebyrank(c)
    \/ \E c \in Connections : FirstFail(c)

SpecIsolation == IsolationInit /\ [][IsolationNext]_vars

(***************************************************************************)
(* The program started with a complete configuration or with one that      *)
(* lacks the server list, the metric list or both; ticks and passes one at *)
(* a time.                                                                 *)
(***************************************************************************)
Without(opts, fields) == [f \in DOMAIN opts \ fields |-> opts[f]]

ConstructOptions ==
    {BaseOptions, Without(BaseOptions, {"servers"}),
     Without(BaseOptions, {"stats"}), Without(BaseOptions, {"servers", "stats"})}

ConstructInit ==
    InitWith(ConstructOptions,
             [me \in Instances(ConstructOptions) |-> {EmptyStore(me)}])

ConstructNext ==
    \/ SeqTick
    \/ SeqCleanup
    \/ \E c \in Connections, result \in OneBlob, i \in clock..MaxClock :
           ExecInfo(c, result, i)
    \/ \E c \in Connections : ExecZadd(c)
    \/ \E c \in Connections : ExecZrangebyscore(c)
    \/ \E c \in Connections : ExecZremrangebyscore(c)
    \/ \E c \in Connections : ExecZcard(c)
    \/ \E c \in Connections : ExecZremrangebyrank(c)

SpecConstruct == ConstructInit /\ [][ConstructNext]_vars

(***************************************************************************)
(* The reply of INFO as Redis formats it: lines that end in CR LF, each a  *)
(* section header `# Section`, a blank line, `name:value` or               *)
(* `group:field=value,field=value`.                                        *)
(***************************************************************************)
CRLF == <<"\r", "\n">>

Field(field, value) == [field |-> field, value |-> value]

Header(text) == [kind |-> "header", name |-> <<"#", " ">> \o text, fields |-> <<>>]
Blank == [kind |-> "blank", name |-> <<>>, fields |-> <<>>]
Scalar(name, value) ==
    [kind |-> "scalar", name |-> name, fields |-> <<Field(<<>>, value)>>]
Group(name, fields) == [kind |-> "group", name |-> name, fields |-> fields]

RECURSIVE FieldsText(_)
FieldsText(fields) ==
    IF fields = <<>> THEN <<>>
    ELSE Head(fields).field \o <<"=">> \o Head(fields).value
         \o (IF Len(fields) > 1 THEN <<",">> ELSE <<>>)
         \o FieldsText(Tail(fields))

LineText(line) ==
    CASE line.kind = "header" -> line.name \o CRLF
      [] line.kind = "blank" -> CRLF
      [] line.kind = "scalar" -> line.name \o Colon \o line.fields[1].value \o CRLF
      [] line.kind = "group" -> line.name \o Colon \o FieldsText(line.fields) \o CRLF

RECURSIVE InfoText(_)
InfoText(lines) ==
    IF lines = <<>> THEN <<>> ELSE LineText(Head(lines)) \o InfoText(Tail(lines))

(***************************************************************************)
(* Two servers of a cluster; the tracked metrics are u, the field k of the *)
(* group d, and e, which INFO reports with an empty value.  One tick at a  *)
(* time, each reply handled at the next instant of the model.              *)
(***************************************************************************)
StatDK == <<"d", ":", "k">>
StatE == <<"e">>

FilterOptions ==
    [BaseOptions EXCEPT !.servers = <<Server1, Server2>>,
                        !.stats = <<StatU, StatDK, StatE>>,
                        !.cluster = TRUE]

FilterReplies ==
    {<<Header(<<"S">>), Scalar(StatU, <<"2">>), Scalar(StatV, <<"7">>), Blank,
       Header(<<"K">>), Scalar(StatE, <<>>),
       Group(<<"d">>, <<Field(<<"k">>, <<"3", "7">>), Field(<<"x">>, <<"9">>)>>)>>,
     <<Header(<<"S">>), Scalar(StatV, <<"7">>),
       Group(<<"d">>, <<Field(<<"x">>, <<"9">>), Field(<<"k">>, <<"5">>)>>)>>}

FilterInit ==
    InitWith({FilterOptions},
             [me \in Instances({FilterOptions}) |-> {EmptyStore(me)}])

FilterNext ==
    \/ SeqTick
    \/ \E c \in Connections, lines \in FilterReplies :
           ExecInfo(c, InfoText(lines), Min(clock + 1, MaxClock))
    \/ \E c \in Connections : ExecZadd(c)
    \/ \E c \in Connections : ExecZrangebyscore(c)
    \/ \E c \in Connections : ExecZremrangebyscore(c)

SpecFilter == FilterInit /\ [][FilterNext]_vars

(***************************************************************************)
(* Configurations whose hosts and metric names hold the separators the     *)
(* keys are built with; one tick at a time, each reply handled at the next *)
(* instant of the model.                                                   *)
(***************************************************************************)
KeyOptions ==
    {BaseOptions,
     TwoStats,
     [BaseOptions EXCEPT !.stats = <<StatU, StatDK>>],
     [BaseOptions EXCEPT !.stats = <<StatU, <<"hourly", ":", "u">>>>],
     [BaseOptions EXCEPT !.stats = <<StatU, <<"daily", ":", "u">>>>],
     [BaseOptions EXCEPT !.servers = <<Server1, [host |-> <<"h", ":", "1">>,
                                                 port |-> <<"1">>]>>,
                         !.stats = <<StatU, <<"1", ":", "u">>>>]}

KeysBlob ==
    InfoText(<<Scalar(StatU, <<"2">>), Scalar(StatV, <<"2">>),
               Group(<<"d">>, <<Field(<<"k">>, <<"2">>)>>),
               Group(<<"hourly">>, <<Field(<<"u">>, <<"2">>)>>),
               Group(<<"daily">>, <<Field(<<"u">>, <<"2">>)>>),
               Group(<<"1">>, <<Field(<<"u">>, <<"2">>)>>)>>)

KeysInit ==
    InitWith(KeyOptions, [me \in Instances(KeyOptions) |-> {EmptyStore(me)}])

KeysNext ==
    \/ SeqTick
    \/ \E c \in Connections : ExecInfo(c, KeysBlob, Min(clock + 1, MaxClock))
    \/ \E c \in Connections : ExecZadd(c)
    \/ \E c \in Connections : ExecZrangebyscore(c)
    \/ \E c \in Connections : ExecZremrangebyscore(c)

SpecKeys == KeysInit /\ [][KeysNext]_vars

(***************************************************************************)
(* Two servers, with and without the cluster option, the sampling timer    *)
(* alone.  The first server may be slow or stop answering: the commands on *)
(* its connection complete or not.  The second server and the cluster      *)
(* answer, and the event loop runs the callbacks of the replies that have  *)
(* arrived: the steps of their connections are fair.                       *)
(***************************************************************************)
FairInit ==
    LET optionSet == {TwoServers, [TwoServers EXCEPT !.cluster = TRUE]}
    IN  InitWith(optionSet, [me \in Instances(optionSet) |-> {EmptyStore(me)}])

\* The retrieval at the head of connection c is answered.
Retrieve(c) ==
    \E result \in OneBlob : ExecInfo(c, result, Min(clock + 1, MaxClock))

\* The store command at the head of connection c is executed.
Write(c) ==
    \/ ExecZadd(c)
    \/ ExecZrangebyscore(c)
    \/ ExecZremrangebyscore(c)

\* The first command of connection c completes and its callback runs.
Complete(c) ==
    \/ Retrieve(c)
    \/ Write(c)

FairTicks == 2

FairNext ==
    \/ ticks < FairTicks /\ Tick
    \/ \E c \in Connections : Complete(c)

Responsive == {0, 2}

\* Weak fairness of Retrieve(c): a retrieval is enabled exactly when it is
\* the head of the connection, and answering it always changes the state.
RetrieveFairly(c) ==
    \/ []<>(~HeadIs(c, "info"))
    \/ []<><<Retrieve(c)>>_vars

\* A server that answers completes every command it is sent.
SpecFair ==
    /\ FairInit
    /\ [][FairNext]_vars
    /\ \A c \in Responsive : WF_vars(Write(c)) /\ RetrieveFairly(c)

(***************************************************************************)
(* Two monitored servers with and without the cluster option, a series     *)
(* limit of one entry so that a pass has something to trim.                *)
(***************************************************************************)
RoutingInit ==
    LET small == [TwoServers EXCEPT !.maxItems = 1]
        optionSet == {small, [small EXCEPT !.cluster = TRUE]}
    IN  InitWith(optionSet, [me \in Instances(optionSet) |-> {EmptyStore(me)}])

RoutingNext ==
    \/ SeqTick
    \/ SeqCleanup
    \/ \E c \in Connections : Retrieve(c)
    \/ \E c \in Connections : ExecZadd(c)
    \/ \E c \in Connections : ExecZrangebyscore(c)
    \/ \E c \in Connections : ExecZremrangebyscore(c)
    \/ \E c \in Connections : ExecZcard(c)
    \/ \E c \in Connections : ExecZremrangebyrank(c)

SpecRouting == RoutingInit /\ [][RoutingNext]_vars

(***************************************************************************)
(* One server sampled at arbitrary times of the first days: the first and  *)
(* last millisecond of an hour and of a day, and times inside them.        *)
(***************************************************************************)
SampleTimes ==
    {0, 1, HourMs - 1, HourMs, 5 * HourMs + 7, DayMs - 1, DayMs,
     DayMs + 3 * HourMs + 250, 2 * DayMs + 23 * HourMs + HourMs - 1}

StampNext ==
    \/ SeqTick
    \/ \E c \in Connections, result \in OneBlob, t \in SampleTimes :
           ExecInfoAt(c, result, clock, t)
    \/ \E c \in Connections : ExecZadd(c)
    \/ \E c \in Connections : ExecZrangebyscore(c)
    \/ \E c \in Connections : ExecZremrangebyscore(c)

SpecStamp == SeqInit /\ [][StampNext]_vars

(***************************************************************************)
(* One server whose replies give the tracked metric u a plain value: a     *)
(* number, a list with a comma, a text with a colon.                       *)
(***************************************************************************)
ScalarReplies ==
    {<<Header(<<"S">>), Scalar(StatU, <<"2">>), Scalar(StatV, <<"7">>)>>,
     <<Header(<<"S">>), Scalar(StatU, <<"2", ",", "5">>)>>,
     <<Header(<<"S">>), Scalar(StatU, <<"2", ":", "5">>)>>}

ScalarNext ==
    \/ SeqTick
    \/ \E c \in Connections, lines \in ScalarReplies :
           ExecInfo(c, InfoText(lines), Min(clock + 1, MaxClock))
    \/ \E c \in Connections : ExecZadd(c)
    \/ \E c \in Connections : ExecZrangebyscore(c)
    \/ \E c \in Connections : ExecZremrangebyscore(c)

SpecScalar == Init /\ [][ScalarNext]_vars

(***************************************************************************)
(* Retention passes over the series of two servers and two metrics, with a *)
(* maximum of its own for each resolution.                                 *)
(***************************************************************************)
LimitOptions ==
    {[TwoServers EXCEPT !.stats = <<StatU, StatV>>, !.maxItems = 3,
                        !.maxItemsHourly = 1, !.maxItemsDaily = 2],
     [TwoServers EXCEPT !.stats = <<StatU, StatV>>, !.maxItems = 4,
                        !.maxItemsHourly = 2, !.maxItemsDaily = 1]}

\* The resolution of the series under key.
ResolutionOf(me, key) ==
    CHOOSE r \in Resolutions :
        \E i \in DOMAIN me.servers, j \in DOMAIN me.stats :
            key = KeyOf(me.prefix, me.servers[i], r, me.stats[j])

\* Every raw series holds five samples or four, every hourly and every daily
\* series two buckets.
FilledStores(me) ==
    {[k \in AllKeys(me) |->
         CASE ResolutionOf(me, k) = "raw" -> raw
           [] ResolutionOf(me, k) = "hourly" -> {HourBucket(0), HourBucket(2)}
           [] ResolutionOf(me, k) = "daily" -> {DayBucket(0), DayBucket(3)}] :
     raw \in {RawCandidates, RawCandidates \ {RawSample(0, <<"5">>)}}}

LimitInit ==
    InitWith(LimitOptions, [me \in Instances(LimitOptions) |-> FilledStores(me)])

SpecLimit == LimitInit /\ [][TrimNext]_vars

(***************************************************************************)
(* The process is ended and started again between two ticks, when nothing  *)
(* is in flight: the new process constructs its object from the same       *)
(* options and opens new connections; the store is the server's.           *)
(***************************************************************************)
Restart ==
    /\ Quiet
    /\ running
    /\ restarts < MaxRestarts
    /\ restarts' = restarts + 1
    /\ self' = constructor(config)
    /\ queue' = [c \in 0..Len(self'.servers) |-> <<>>]
    /\ UNCHANGED <<config, store, clock, ticks, passes, running, calls, snap,
                   failed, written, cardSeen, info>>

RestartNext ==
    \/ SeqTick
    \/ Restart
    \/ \E c \in Connections, result \in NumericBlobs, i \in clock..MaxClock :
           ExecInfo(c, result, i)
    \/ \E c \in Connections : ExecZadd(c)
    \/ \E c \in Connections : ExecZrangebyscore(c)
    \/ \E c \in Connections : ExecZremrangebyscore(c)

SpecRestart == Init /\ [][RestartNext]_vars

(***************************************************************************)
(* Properties of the bucket update.                                        *)
(***************************************************************************)
RECURSIVE SumOf(_)
SumOf(xs) == IF xs = <<>> THEN Int2Num(0) ELSE NumAdd(Head(xs).objVal, SumOf(Tail(xs)))

\* The addAvgToZsets calls made so far for the bucket of key at score.
CallsFor(key, score) ==
    SelectSeq(calls, LAMBDA cmd : cmd.key = key /\ cmd.score = score)

BucketAt(zsets, key, score) == ZRANGEBYSCORE(zsets[key], score, score)

Buckets == {<<calls[i].key, calls[i].score>> : i \in DOMAIN calls}

AllNumeric(xs) == \A i \in DOMAIN xs : IsNum(xs[i].objVal)

\* The bucket that holds exactly the mean of the samples xs.
IsExactBucket(bucket, xs) ==
    \E e \in bucket :
        /\ bucket = {e}
        /\ e.member.n = Len(xs)
        /\ e.member.val = NumDivInt(SumOf(xs), Len(xs))

\* A command of an update of the bucket of key at score is in flight.
InFlight(key, score) ==
    \E c \in Connections : \E i \in DOMAIN queue[c] :
        /\ queue[c][i].key = key
        /\ queue[c][i].score = score
        /\ queue[c][i].op \in {"zrangebyscore", "zremrangebyscore", "zadd"}

BucketKeys ==
    {KeyOf(self.prefix, self.servers[i], r, self.stats[j]) :
        i \in DOMAIN self.servers, r \in {"hourly", "daily"}, j \in DOMAIN self.stats}

\* C1: once the updates of a bucket that were in flight together have all
\* finished, the bucket's n counts every one of them and its mean is the
\* mean of all their samples.
NoLostUpdate ==
    \A b \in Buckets :
        ~InFlight(b[1], b[2]) =>
            \E e \in BucketAt(store, b[1], b[2]) :
                /\ e.member.n = Len(CallsFor(b[1], b[2]))
                /\ e.member.val = NumDivInt(SumOf(CallsFor(b[1], b[2])),
                                            Len(CallsFor(b[1], b[2])))

\* C3: an hourly or daily series holds at most one entry per window score.
OneEntryPerScore ==
    \A key \in BucketKeys : \A e1, e2 \in store[key] :
        e1.score = e2.score => e1 = e2

\* C2: numeric samples x1..xk recorded one after another into the same window
\* of an absent bucket leave exactly one bucket there, with n = k and
\* mean = (x1+...+xk)/k, after each of the k updates.
MeanIsExact ==
    Quiet =>
        \A b \in Buckets :
            LET xs == CallsFor(b[1], b[2])
            IN  AllNumeric(xs) => IsExactBucket(BucketAt(store, b[1], b[2]), xs)

\* Three samples, not all equal, have been averaged into one bucket.
MeanWitness ==
    /\ Quiet
    /\ \E b \in Buckets :
           LET xs == CallsFor(b[1], b[2])
           IN  /\ Len(xs) = 3
               /\ AllNumeric(xs)
               /\ xs[1].objVal # xs[2].objVal
               /\ xs[2].objVal # xs[3].objVal
               /\ \E e \in BucketAt(store, b[1], b[2]) : e.member.n = 3


RawKeys ==
    {KeyOf(self.prefix, self.servers[i], "raw", self.stats[j]) :
        i \in DOMAIN self.servers, j \in DOMAIN self.stats}

\* The value sampled by the last tick is no number (the one tracked metric of
\* the one server gives every call of a tick the same value).
LastSampleNotNumeric == calls # <<>> /\ ~IsNum(calls[Len(calls)].objVal)

\* C8: when the tick has sampled a value that is no finite number, once its
\* commands have completed the raw series holds the sample and the hourly and
\* the daily series are as they were when the tick started.
NonNumericSkipped ==
    (Quiet /\ LastSampleNotNumeric) =>
        /\ \A key \in RawKeys : \E e \in store[key] : ~IsNum(parseFloat(e.member.val.str))
        /\ \A key \in BucketKeys : store[key] = snap[key]

\* C9: when a store command of a bucket update has failed, the bucket is, once
\* the update has finished, what it was before the update.
FailedUpdateKeepsBucket ==
    Quiet =>
        \A f \in failed :
            f.key \in BucketKeys =>
                BucketAt(store, f.key, f.score) = BucketAt(snap, f.key, f.score)

\* C10: once the process has been stopped and the commands that had left it
\* have been executed, every bucket is what it was before the interrupted
\* update or what the whole update makes it: the exact mean of all samples.
StoppedUpdateIsWhole ==
    (~running /\ Quiet) =>
        \A b \in Buckets :
            \/ BucketAt(store, b[1], b[2]) = BucketAt(snap, b[1], b[2])
            \/ IsExactBucket(BucketAt(store, b[1], b[2]), CallsFor(b[1], b[2]))


(***************************************************************************)
(* Properties of the retention pass.                                       *)
(***************************************************************************)
\* The maximum the pass trims the series of key to.
MaxItemsFor(key) ==
    IF key \in RawKeys THEN self.maxItems
    ELSE IF \E i \in DOMAIN self.servers, j \in DOMAIN self.stats :
                key = KeyOf(self.prefix, self.servers[i], "hourly", self.stats[j])
         THEN self.maxItemsHourly
         ELSE self.maxItemsDaily

\* Every callback of pass p has run.
PassDone(p) ==
    /\ p <= passes
    /\ \A c \in Connections : \A i \in DOMAIN queue[c] : queue[c][i].pass # p

\* C5: one trim of a series of count entries with maximum m < count, run with
\* no other store activity, leaves m entries of the series, and no entry it
\* removed has a higher score than an entry it left.
TrimRemovesOldest ==
    (Quiet /\ passes = 1) =>
        \A key \in DOMAIN store :
            Cardinality(snap[key]) > MaxItemsFor(key) =>
                /\ store[key] \subseteq snap[key]
                /\ Cardinality(store[key]) = MaxItemsFor(key)
                /\ \A r \in snap[key] \ store[key] : \A e \in store[key] :
                       r.score <= e.score

\* A series of five entries has been trimmed to three.
TrimWitness ==
    /\ Quiet
    /\ passes = 1
    /\ \E key \in RawKeys :
           /\ Cardinality(snap[key]) = 5
           /\ Cardinality(store[key]) = 3
           /\ MaxItemsFor(key) = 3

\* C7: a pass started after an earlier pass has completed, with no write in
\* between, sends no removal and leaves every series as it found it; no pass
\* sends a removal for a series that holds at most its maximum.
SecondPassIsNoOp ==
    /\ passes >= 2 =>
           /\ store = snap
           /\ \A c \in Connections : \A i \in DOMAIN queue[c] :
                  queue[c][i].op # "zremrangebyrank"
    /\ \A c \in Connections : \A i \in DOMAIN queue[c] :
           queue[c][i].op = "zremrangebyrank" =>
               Cardinality(snap[queue[c][i].key]) > queue[c][i].maxItems

\* The second pass is over, after a first pass that had removed entries.
SecondPassWitness ==
    /\ Quiet
    /\ passes = 2
    /\ \E key \in RawKeys : Cardinality(store[key]) = MaxItemsFor(key)
    /\ \E key \in BucketKeys : Cardinality(store[key]) = MaxItemsFor(key)


\* C4 as stated: at the step that completes a retention pass, with the sampling
\* timer running, every series holds at most its maximum.
PassLeavesAtMostMax ==
    [][\A p \in 1..MaxPasses :
           (~PassDone(p) /\ PassDone(p)') =>
               \A key \in DOMAIN store :
                   Cardinality(store'[key]) <= MaxItemsFor(key)]_vars

\* C4 as amended: once a retention pass has completed, every series holds at
\* most its maximum plus the number of entries written to it since the pass
\* read its cardinality.
PassLeavesAtMostMaxPlusWritten ==
    \A p \in 1..MaxPasses :
        PassDone(p) =>
            \A key \in DOMAIN store :
                Cardinality(store[key]) <=
                    MaxItemsFor(key) + (written[key] - cardSeen[<<p, key>>])

\* A pass has completed that removed an entry of a series, and nothing has
\* been written to that series since the pass read its cardinality.
PassWitness ==
    \E p \in 1..MaxPasses :
        /\ PassDone(p)
        /\ \E key \in DOMAIN store :
               /\ written[key] = cardSeen[<<p, key>>]
               /\ written[key] > MaxItemsFor(key)
               /\ Cardinality(store[key]) = MaxItemsFor(key)

\* C6: a trim never leaves a series shorter than the smaller of the length it
\* had before the removal and its maximum.
TrimKeepsNewest ==
    [][\A c \in Connections :
           (HeadIs(c, "zremrangebyrank") /\ queue'[c] = Tail(queue[c])) =>
               LET cmd == Head(queue[c])
               IN  Cardinality(store'[cmd.key]) >=
                       Min(Cardinality(store[cmd.key]), cmd.maxItems)]_vars

(***************************************************************************)
(* Properties of failure handling.                                         *)
(***************************************************************************)
\* The status retrievals of server i that have failed so far.
InfoFailuresOf(i) ==
    {f \in failed : f.op = "info" /\
        f.key = self.servers[i].host \o Colon \o self.servers[i].port}

\* The samples of server i the ticks have recorded so far: the calls that
\* update its hourly series.
SamplesOf(i) ==
    SelectSeq(calls, LAMBDA cmd :
        \E j \in DOMAIN self.stats :
            cmd.key = KeyOf(self.prefix, self.servers[i], "hourly", self.stats[j]))

\* C11: a failing redis.info is not fatal, and once the commands of the ticks
\* have completed every server has one sample recorded for each tick in which
\* its retrieval did not fail, and none for a tick in which it failed.
InfoFailureIsSkipped ==
    /\ (\E f \in failed : f.op = "info") => running
    /\ Quiet =>
           \A i \in Redises :
               Len(SamplesOf(i)) = ticks - Cardinality(InfoFailuresOf(i))

\* The commands the code sends with a callback that reports err:
\* `if (err) return debug(err)`.  zadd and zremrangebyscore are sent with no
\* callback.
HasErrCallback(cmd) == cmd.op \in {"zcard", "zremrangebyrank", "zrangebyscore"}

NoFailureOn(key) == \A f \in failed : f.key # key

\* C12: a store command that fails is reported; and once the tick or the
\* pass has completed, every series none of whose commands failed has got its
\* sample (the raw sample of the tick's instant, a bucket entry that was not
\* there before the tick) or its trim (to at most its maximum).
StoreFailureIsIsolated ==
    Quiet =>
        /\ \A f \in failed : f.op # "info" => HasErrCallback(f)
        /\ (passes = 0 /\ ticks >= 1) =>
               /\ \A key \in RawKeys :
                      NoFailureOn(key) =>
                          \E e \in store[key] : e.score = Instant(clock)
               /\ \A key \in BucketKeys :
                      NoFailureOn(key) => store[key] \ snap[key] # {}
        /\ passes >= 1 =>
               \A key \in DOMAIN store :
                   NoFailureOn(key) =>
                       /\ store[key] \subseteq snap[key]
                       /\ Cardinality(store[key]) <= MaxItemsFor(key)

(***************************************************************************)
(* Properties of the constructor.                                          *)
(***************************************************************************)
ListMissing == "servers" \notin DOMAIN config \/ "stats" \notin DOMAIN config

\* C13: when the options lack the server list or the metric list, the
\* constructor throws: there is no object, and no tick, no pass, no command
\* and no store write ever happens.
MissingListNeverStarts ==
    ListMissing =>
        /\ self = NoObject
        /\ ~running
        /\ ticks = 0
        /\ passes = 0
        /\ Quiet
        /\ calls = <<>>
        /\ \A key \in DOMAIN store : store[key] = {} /\ written[key] = 0

\* The constructor has thrown for options that give the metrics and no
\* servers.
MissingListWitness ==
    /\ "servers" \notin DOMAIN config
    /\ "stats" \in DOMAIN config
    /\ self = NoObject
    /\ ~running

(***************************************************************************)
(* Properties of the metric filter.                                        *)
(***************************************************************************)
\* The reply, line by line, whose text the last info callback was given.
InfoLines == CHOOSE lines \in FilterReplies : InfoText(lines) = info.result

RECURSIVE TrackedFields(_, _)
TrackedFields(group, fields) ==
    IF fields = <<>> THEN <<>>
    ELSE (IF group \o Colon \o Head(fields).field \in Range(self.stats)
          THEN <<[name |-> group \o Colon \o Head(fields).field,
                  value |-> Head(fields).value]>>
          ELSE <<>>)
         \o TrackedFields(group, Tail(fields))

\* The pairs of a reply that have a value and a tracked name, in order.
RECURSIVE TrackedPairs(_)
TrackedPairs(lines) ==
    IF lines = <<>> THEN <<>>
    ELSE (CASE Head(lines).kind = "scalar" ->
                 IF Head(lines).name \in Range(self.stats)
                    /\ Head(lines).fields[1].value # <<>>
                 THEN <<[name |-> Head(lines).name,
                         value |-> Head(lines).fields[1].value]>>
                 ELSE <<>>
            [] Head(lines).kind = "group" ->
                 TrackedFields(Head(lines).name, Head(lines).fields)
            [] OTHER -> <<>>)
         \o TrackedPairs(Tail(lines))

\* What a command writes: its operation, key, score and value.
WriteOf(cmd) ==
    <<cmd.op, cmd.key, cmd.score,
      IF cmd.op = "zadd" THEN cmd.member.val ELSE cmd.objVal>>

\* The writes of one sample: the raw sample, the hourly and the daily bucket.
RECURSIVE SampleWrites(_, _, _)
SampleWrites(server, pairs, t) ==
    IF pairs = <<>> THEN <<>>
    ELSE << <<"zadd", KeyOf(self.prefix, server, "raw", Head(pairs).name),
              t, Str(Head(pairs).value)>>,
            <<"zrangebyscore", KeyOf(self.prefix, server, "hourly", Head(pairs).name),
              getTime(hourTime(t)), parseFloat(Head(pairs).value)>>,
            <<"zrangebyscore", KeyOf(self.prefix, server, "daily", Head(pairs).name),
              getTime(dayTime(t)), parseFloat(Head(pairs).value)>> >>
         \o SampleWrites(server, Tail(pairs), t)

\* The commands the step has added to the queue of connection w, on which
\* nothing else was queued or executed.
Sent(w) == SubSeq(queue'[w], Len(queue[w]) + 1, Len(queue'[w]))

\* C14: the callback of redis.info sends, for each pair of the reply that has
\* a value and a tracked name, one raw sample and one update of the hourly
\* and of the daily bucket under the keys of its server and that name, and
\* sends nothing else; it changes no series itself.
TickWritesTrackedOnly ==
    [][\A c \in Redises :
           (HeadIs(c, "info") /\ queue'[c] = Tail(queue[c]) /\ Writer(c) # c) =>
               /\ [k \in DOMAIN Sent(Writer(c)) |-> WriteOf(Sent(Writer(c))[k])]
                      = SampleWrites(self.servers[c], TrackedPairs(InfoLines'), info'.time)
               /\ store' = store]_vars

\* A reply with tracked and untracked pairs, a header and an empty value has
\* been handled and its commands have been executed.
TrackedOnlyWitness ==
    /\ Quiet
    /\ info.redis = 2
    /\ Len(InfoLines) = 7
    /\ Len(TrackedPairs(InfoLines)) = 2
    /\ store[KeyOf(self.prefix, Server2, "raw", StatDK)] # {}
    /\ store[KeyOf(self.prefix, Server2, "raw", StatE)] = {}

\* The fields of the group lines of a reply, each with the name of its group.
RECURSIVE GroupFields(_)
GroupFields(lines) ==
    IF lines = <<>> THEN {}
    ELSE (IF Head(lines).kind = "group"
          THEN {[group |-> Head(lines).name, field |-> f.field, value |-> f.value] :
                   f \in Range(Head(lines).fields)}
          ELSE {})
         \cup GroupFields(Tail(lines))

TrackedField(f) == f.group \o Colon \o f.field \in Range(self.stats)

\* C15: once the commands of a tick have completed, the series of the
\* metric `group:field` of the server whose reply was handled last holds, at
\* the instant of that reply, the value of every tracked field of the reply's
\* group lines, as the text the reply gives; and no series holds the value of
\* a field that is not tracked.
CompoundFieldRecorded ==
    (Quiet /\ info.redis # 0) =>
        \A f \in GroupFields(InfoLines) :
            IF TrackedField(f)
            THEN \E e \in store[KeyOf(self.prefix, self.servers[info.redis], "raw",
                                       f.group \o Colon \o f.field)] :
                     /\ e.score = info.time
                     /\ e.member.val = Str(f.value)
            ELSE \A key \in DOMAIN store : \A e \in store[key] :
                     /\ e.member.val # Str(f.value)
                     /\ e.member.val # parseFloat(f.value)

\* The reply `d:k=37,x=9` of the second server has been recorded.
CompoundFieldWitness ==
    /\ Quiet
    /\ info.redis = 2
    /\ \E f \in GroupFields(InfoLines) : TrackedField(f) /\ f.value = <<"3", "7">>
    /\ \E f \in GroupFields(InfoLines) : ~TrackedField(f)
    /\ \E e \in store[KeyOf(self.prefix, Server2, "raw", StatDK)] :
           e.member.val = Str(<<"3", "7">>)

(***************************************************************************)
(* Properties of the storage keys.                                         *)
(***************************************************************************)
\* The (host, port, metric name, resolution) tuples of the configuration.
KeyTuples ==
    {<<self.servers[i].host, self.servers[i].port, self.stats[j], r>> :
        i \in DOMAIN self.servers, j \in DOMAIN self.stats, r \in Resolutions}

KeyOfTuple(t) == KeyOf(self.prefix, [host |-> t[1], port |-> t[2]], t[4], t[3])

\* C16: two distinct (host, port, metric name, resolution) tuples
\* never yield the same key.
KeysInjective ==
    \A t1, t2 \in KeyTuples : t1 # t2 => KeyOfTuple(t1) # KeyOfTuple(t2)

(***************************************************************************)
(* Properties of renderStatus.                                             *)
(***************************************************************************)
LineValue(line) ==
    IF line.kind = "scalar" THEN line.fields[1].value ELSE FieldsText(line.fields)

\* The pairs a reply stands for: one for each line that is not blank, with
\* the text after the colon as its value.
RECURSIVE PairsOf(_)
PairsOf(lines) ==
    IF lines = <<>> THEN <<>>
    ELSE (IF Head(lines).kind = "blank" THEN <<>>
          ELSE <<[name |-> Head(lines).name, value |-> LineValue(Head(lines))]>>)
         \o PairsOf(Tail(lines))

\* The value of a rendered pair is absent: null, or nothing at all.
Absent(pair) == ~pair.has \/ pair.value = <<>>

\* C17: renderStatus of a reply is one pair for each line of the reply that
\* is not blank, in the order of the lines, with the line's name and with the
\* text after the colon, less the carriage return, as its value; the value
\* is absent when the line has no colon or nothing after it.
RenderedPairPerLine ==
    info.redis # 0 =>
        LET table == renderStatus(info.result)
            pairs == PairsOf(InfoLines)
        IN  /\ Len(table) = Len(pairs)
            /\ \A k \in DOMAIN table : k \in DOMAIN pairs =>
                   /\ replaceFirst(table[k].name, "\r") = pairs[k].name
                   /\ Absent(table[k]) = (pairs[k].value = <<>>)
                   /\ ~Absent(table[k]) => table[k].value = pairs[k].value

(***************************************************************************)
(* Properties of the isolation of servers.                                 *)
(***************************************************************************)
KeysOfServer(i) ==
    {KeyOf(self.prefix, self.servers[i], r, self.stats[j]) :
        r \in Resolutions, j \in DOMAIN self.stats}

\* No command for a series of server i is waiting on any connection.
NothingPendingFor(i) ==
    \A c \in Connections : \A k \in DOMAIN queue[c] :
        queue[c][k].key \notin KeysOfServer(i)

\* C18: whatever the first server does, each tick is followed by a state in
\* which the second server, which answers, has its sample of that tick
\* recorded and written: nothing for its series is left waiting.
SlowServerDoesNotStall ==
    \A k \in 1..FairTicks :
        (ticks >= k) ~>
            (/\ Len(SamplesOf(2)) >= k
             /\ NothingPendingFor(2)
             /\ \A key \in KeysOfServer(2) : store[key] # {})

\* Every tick has been recorded for the second server while the first
\* server has not answered a single retrieval.
SlowServerWitness ==
    /\ ticks = FairTicks
    /\ Len(queue[1]) = FairTicks
    /\ \A k \in DOMAIN queue[1] : queue[1][k].op = "info"
    /\ Len(SamplesOf(2)) = FairTicks
    /\ NothingPendingFor(2)
    /\ \A key \in KeysOfServer(2) : store[key] # {}

\* The connection a command for the series of server i is to be sent on.
ConnectionFor(i) == IF self.cluster THEN 0 ELSE i

\* Command cmd waits on connection c, where it belongs: a retrieval on the
\* connection of a monitored server, a write or a trim on the connection of
\* the one server whose series it addresses, or on the cluster connection.
Routed(c, cmd) ==
    IF cmd.op = "info" THEN c \in Redises
    ELSE /\ \E i \in Redises : cmd.key \in KeysOfServer(i)
         /\ \A i \in Redises :
                cmd.key \in KeysOfServer(i) => c = ConnectionFor(i)

\* C19: every write and every trim for a server's series is sent on that
\* server's own connection, or on the cluster connection with the cluster
\* option; a tick sends one retrieval to every monitored server, with or
\* without the cluster option, and none to the cluster connection.
WritesGoToOwnConnection ==
    /\ [](\A c \in Connections : \A k \in DOMAIN queue[c] :
             Routed(c, queue[c][k]))
    /\ [][ticks' = ticks + 1 =>
             /\ \A i \in Redises : queue'[i] = Append(queue[i], InfoCmd)
             /\ queue'[0] = queue[0]]_vars

\* Without the cluster option: the samples of the second server have been
\* written through its connection, and a trim of one of its series waits on
\* that connection while the first server's connection holds its own.
RoutingWitness ==
    /\ ~self.cluster
    /\ written[KeyOf(self.prefix, Server2, "raw", StatU)] > 1
    /\ \E k \in DOMAIN queue[2] :
           /\ queue[2][k].op = "zremrangebyrank"
           /\ queue[2][k].key \in KeysOfServer(2)
    /\ \E k \in DOMAIN queue[1] : queue[1][k].key \in KeysOfServer(1)

(***************************************************************************)
(* Properties of the sample count of a bucket.                             *)
(***************************************************************************)
\* The updates of the bucket of key at score that have not written yet:
\* each still has its read or its write waiting on a connection.
Unfinished(key, score) ==
    {ck \in {ci \in Connections \X (1..LongestQueue) :
                ci[2] \in DOMAIN queue[ci[1]]} :
        /\ queue[ck[1]][ck[2]].key = key
        /\ queue[ck[1]][ck[2]].score = score
        /\ queue[ck[1]][ck[2]].op \in {"zrangebyscore", "zadd"}}

\* The number of updates of the bucket that have completed.
Completed(key, score) ==
    Len(CallsFor(key, score)) - Cardinality(Unfinished(key, score))

\* C20: while a bucket is there, its n is the number of updates completed
\* for it, so that n grows by one with each completed update and is never
\* back at an earlier value, 1 included, also when updates overlap; and no
\* step takes a bucket's n down.
CountGrowsByOne ==
    /\ [](\A b \in Buckets :
             \A e \in BucketAt(store, b[1], b[2]) :
                 e.member.n = Completed(b[1], b[2]))
    /\ [][\A b \in Buckets :
             \A e1 \in BucketAt(store, b[1], b[2]) :
                 \A e2 \in BucketAt(store', b[1], b[2]) :
                     e2.member.n >= e1.member.n]_vars

(***************************************************************************)
(* Properties of the order of the writes of one sample.                    *)
(***************************************************************************)
\* The positions of the commands waiting on the connections.
Waiting ==
    {ck \in Connections \X (1..LongestQueue) : ck[2] \in DOMAIN queue[ck[1]]}

\* The write of a raw sample: its payload has no n.
IsRawWrite(cmd) == cmd.op = "zadd" /\ cmd.member.n = 0

\* The window of resolution res that instant t falls into.
WindowOf(res, t) == IF res = "hourly" THEN hourTime(t) ELSE dayTime(t)

\* The raw writes waiting for server i and metric j whose instant falls into
\* the window of resolution res that starts at score.
RawWaiting(i, j, res, score) ==
    {ck \in Waiting :
        LET cmd == queue[ck[1]][ck[2]]
        IN  /\ IsRawWrite(cmd)
            /\ cmd.key = KeyOf(self.prefix, self.servers[i], "raw", self.stats[j])
            /\ getTime(WindowOf(res, cmd.score)) = score}

\* Command cmd starts the update, for the sample of the raw write raw, of
\* the bucket of resolution res.
StartsUpdateOf(cmd, raw, res) ==
    /\ cmd.op = "zrangebyscore"
    /\ cmd.score = getTime(WindowOf(res, raw.score))
    /\ cmd.objKey = WindowOf(res, raw.score)
    /\ \E i \in Redises : \E j \in DOMAIN self.stats :
           /\ raw.key = KeyOf(self.prefix, self.servers[i], "raw", self.stats[j])
           /\ cmd.key = KeyOf(self.prefix, self.servers[i], res, self.stats[j])

\* C21: the raw write of a sample is sent before the updates of its hourly
\* and daily bucket, on the same connection: while it waits, the two updates
\* wait right behind it, not yet started.  So for every bucket, the samples
\* of its window whose raw write still waits are not more than the updates
\* of the bucket that have not written yet: no bucket holds a sample whose
\* raw entry is not written.
RawWrittenBeforeBuckets ==
    /\ \A ck \in Waiting :
           LET c == ck[1]
               k == ck[2]
           IN  IsRawWrite(queue[c][k]) =>
                   /\ k + 2 \in DOMAIN queue[c]
                   /\ StartsUpdateOf(queue[c][k + 1], queue[c][k], "hourly")
                   /\ StartsUpdateOf(queue[c][k + 2], queue[c][k], "daily")
    /\ \A i \in Redises : \A j \in DOMAIN self.stats :
           \A res \in {"hourly", "daily"} : \A t \in 0..MaxClock :
               LET score == getTime(WindowOf(res, Instant(t)))
                   key == KeyOf(self.prefix, self.servers[i], res, self.stats[j])
               IN  Cardinality(RawWaiting(i, j, res, score))
                       <= Cardinality(Unfinished(key, score))

\* The raw write of a later sample waits with its two updates behind it
\* while the hourly bucket of its window already holds an earlier sample,
\* whose raw entry is in the store.
RawFirstWitness ==
    \E ck \in Waiting :
        LET raw == queue[ck[1]][ck[2]]
            key == KeyOf(self.prefix, Server1, "hourly", StatU)
        IN  /\ IsRawWrite(raw)
            /\ BucketAt(store, key, getTime(hourTime(raw.score))) # {}
            /\ store[KeyOf(self.prefix, Server1, "raw", StatU)] # {}

(***************************************************************************)
(* Properties of the lifetime of the records.                              *)
(***************************************************************************)
\* The step executes a retention trim of the series under key.
TrimOf(key) ==
    \E c \in Connections :
        /\ HeadIs(c, "zremrangebyrank")
        /\ Head(queue[c]).key = key
        /\ queue'[c] = Tail(queue[c])

\* C22: a step that is not a retention trim of a series leaves every raw
\* entry of the series in place and leaves an entry at every window score
\* at which the series had a bucket.
OnlyRetentionDestroys ==
    [][\A key \in AllKeys(self) :
          \/ TrimOf(key)
          \/ \A e \in store[key] :
                 IF key \in BucketKeys
                 THEN BucketAt(store', key, e.score) # {}
                 ELSE e \in store'[key]]_vars

(***************************************************************************)
(* Properties of the scores.                                               *)
(***************************************************************************)
\* The raw write at position k of connection c and the two commands behind
\* it carry the scores of one sample taken at t.
StampedAt(c, k, t) ==
    /\ queue[c][k].score = t
    /\ queue[c][k].member.iso = toISOString(t)
    /\ k + 2 \in DOMAIN queue[c]
    /\ queue[c][k + 1].op = "zrangebyscore"
    /\ queue[c][k + 1].score = t - (t % HourMs)
    /\ queue[c][k + 2].op = "zrangebyscore"
    /\ queue[c][k + 2].score = t - (t % DayMs)
    /\ queue[c][k + 1].score <= t /\ t < queue[c][k + 1].score + HourMs
    /\ queue[c][k + 2].score <= t /\ t < queue[c][k + 2].score + DayMs

\* C23: a sample taken at t is sent as a raw entry of score t, an update of
\* the hourly bucket of score t - (t mod 3600000) and an update of the daily
\* bucket of score t - (t mod 86400000), t being the one time read when the
\* sample was handled; so t lies inside both windows.  Every entry stored
\* has the score of the time in its payload, a bucket the start of a window.
ScoresDeriveFromOneTime ==
    /\ \A ck \in Waiting :
           IsRawWrite(queue[ck[1]][ck[2]]) => StampedAt(ck[1], ck[2], info.time)
    /\ \A key \in AllKeys(self) : \A e \in store[key] :
           /\ e.score = getTime(e.member.iso)
           /\ key = KeyOf(self.prefix, Server1, "hourly", StatU)
                  => e.score % HourMs = 0
           /\ key = KeyOf(self.prefix, Server1, "daily", StatU)
                  => e.score % DayMs = 0

\* A sample taken inside an hour that is not the first of its day waits to
\* be written, and an hourly bucket of an earlier sample is stored.
StampWitness ==
    /\ info.time = DayMs + 3 * HourMs + 250
    /\ \E ck \in Waiting : IsRawWrite(queue[ck[1]][ck[2]])
    /\ store[KeyOf(self.prefix, Server1, "hourly", StatU)] # {}

(***************************************************************************)
(* Properties of the plain values.                                         *)
(***************************************************************************)
\* The lines of the reply handled last.
ScalarLines == CHOOSE lines \in ScalarReplies : InfoText(lines) = info.result

\* The commands the callback of connection c's redis.info has sent.
StartedBy(c) ==
    LET w == Writer(c)
        from == IF w = c THEN Len(queue[w]) ELSE Len(queue[w]) + 1
    IN  SubSeq(queue'[w], from, Len(queue'[w]))

\* C24: for each line `name:value` of the reply with a tracked name and a
\* plain value, the callback of redis.info sends one raw sample with the
\* whole value and one update of the hourly and of the daily bucket under
\* that name, and nothing else: one tick starts one update per bucket.
PlainValueRecordedOnce ==
    [][\A c \in Redises :
           (HeadIs(c, "info") /\ Len(queue[c]) = 1 /\ info'.redis = c
                /\ ticks' = ticks) =>
               [k \in DOMAIN StartedBy(c) |-> WriteOf(StartedBy(c)[k])]
                   = SampleWrites(self.servers[c], TrackedPairs(ScalarLines'),
                                  info'.time)]_vars

(***************************************************************************)
(* Properties of the independence of the trims.                            *)
(***************************************************************************)
\* The step runs the callback of the zcard of the series under key.
CountOf(key) ==
    \E c \in Connections :
        /\ HeadIs(c, "zcard")
        /\ Head(queue[c]).key = key
        /\ queue'[c] # queue[c]

\* The trims of the series under key that wait on the connections.
TrimsWaiting(q, key) ==
    {ck \in Connections \X (1..3 * Len(self.stats) * Len(self.servers)) :
        /\ ck[2] \in DOMAIN q[ck[1]]
        /\ q[ck[1]][ck[2]].op = "zremrangebyrank"
        /\ q[ck[1]][ck[2]].key = key}

\* C25: a pass counts each series and trims it when the count is above the
\* maximum of the series' own resolution, and only then; the trim leaves
\* that maximum in the series, takes nothing else from it, and changes no
\* other series.
TrimsAreIndependent ==
    [][\A key \in AllKeys(self) :
          /\ CountOf(key) =>
                 /\ store' = store
                 /\ (TrimsWaiting(queue', key) # {})
                        = (Cardinality(store[key]) > MaxItemsFor(key))
                 /\ \A other \in AllKeys(self) \ {key} :
                        Cardinality(TrimsWaiting(queue', other))
                            = Cardinality(TrimsWaiting(queue, other))
          /\ TrimOf(key) =>
                 /\ store'[key] \subseteq store[key]
                 /\ Cardinality(store'[key]) = MaxItemsFor(key)
                 /\ \A other \in AllKeys(self) \ {key} :
                        store'[other] = store[other]]_vars

\* A pass is over: the raw series of one metric of the second server is
\* down to its maximum and so is an hourly series of the first server, while
\* a series below its maximum is as it was.
IndependentWitness ==
    /\ Quiet /\ passes = 1
    /\ self.maxItemsHourly = 1
    /\ Cardinality(store[KeyOf(self.prefix, Server2, "raw", StatV)]) = 3
    /\ Cardinality(store[KeyOf(self.prefix, Server1, "hourly", StatU)]) = 1
    /\ Cardinality(store[KeyOf(self.prefix, Server1, "daily", StatU)]) = 2
    /\ snap[KeyOf(self.prefix, Server2, "raw", StatV)] = RawCandidates

(***************************************************************************)
(* Properties of a restart.                                                *)
(***************************************************************************)
\* C26: after the process has been started again between two ticks, every
\* bucket holds, once the updates have completed, what it holds in a run
\* without the restart: n is the number of the samples recorded into the
\* window before and after the restart, and the mean is their mean.
RestartKeepsAverage ==
    (Quiet /\ restarts > 0) =>
        \A b \in Buckets :
            /\ Cardinality(BucketAt(store, b[1], b[2])) = 1
            /\ \A e \in BucketAt(store, b[1], b[2]) :
                   /\ e.member.n = Len(CallsFor(b[1], b[2]))
                   /\ e.member.val
                          = NumDivInt(SumOf(CallsFor(b[1], b[2])), e.member.n)

\* A bucket holds three samples, not all equal, the first recorded by the
\* first process and the last by the third.
RestartWitness ==
    /\ Quiet
    /\ restarts = 2
    /\ \E e \in store[KeyOf(self.prefix, Server1, "hourly", StatU)] :
           /\ e.member.n = 3
           /\ e.member.val = Int2Num(3)

====
